---- MODULE Spec2Model ----
(***************************************************************************)
(* Crave.ai: the chat page of src/js/app.js, the AI service of             *)
(* src/js/ai-service.js and the relays of src/backend.                     *)
(*                                                                         *)
(* A JavaScript string is a sequence of tokens (string literals and the    *)
(* values interpolated into them), so concatenation is \o and trim()       *)
(* strips whitespace tokens.  A number with two decimals is an integer in  *)
(* hundredths.  JSON objects are records; localStorage values are kept in  *)
(* their parsed form.                                                      *)
(***************************************************************************)
EXTENDS Integers, Sequences, FiniteSets, TLC

VARIABLES
    bots,         \* localStorage crave_ai_bots: the bot collection
    chats,        \* localStorage crave_ai_chats: bot id -> transcript
    now,          \* Date.now()
    currentChat,  \* window.currentChat
    form,         \* is the submit handler of the chat form attached
    view,         \* children of the .chat-messages container
    pending,      \* sends between their submission and their end
    toast,        \* the .toast element of the page
    sends,        \* number of submissions accepted so far
    deletes,      \* number of deletes confirmed so far
    call,         \* pure-function harness: the arguments of the call
    ret           \* pure-function harness: the value returned

chatVars == <<bots, chats, now, currentChat, form, view, pending,
              toast, sends, deletes>>
fnVars   == <<call, ret>>
vars     == <<bots, chats, now, currentChat, form, view, pending,
              toast, sends, deletes, call, ret>>

----------------------------------------------------------------------------
(* Bounds *)

MaxOld     == 11   \* longest transcript left in the store by earlier visits
MaxSends   == 2    \* submissions accepted in one run
MaxDeletes == 1    \* deletes confirmed in one run
MaxClock   == 1    \* ticks of the clock in one run
MaxHist    == 12   \* longest history handed to prepareConversationHistory
MaxMsg     == 4    \* longest message of which every spelling is formatted

(* Program constants *)

HistoryWindow == 10

----------------------------------------------------------------------------
(* Strings *)

Null == "null"

Whitespace == {" ", "\n"}

RECURSIVE TrimStart(_)
TrimStart(s) ==
    IF s # <<>> /\ Head(s) \in Whitespace THEN TrimStart(Tail(s)) ELSE s

RECURSIVE TrimEnd(_)
TrimEnd(s) ==
    IF s # <<>> /\ s[Len(s)] \in Whitespace
    THEN TrimEnd(SubSeq(s, 1, Len(s) - 1))
    ELSE s

(* messageInput.value taken as it is, without trim() *)
TrimSkipped(s) == s

Trim(s) == TrimEnd(TrimStart(s))

Min(a, b) == IF a < b THEN a ELSE b
Max(a, b) == IF a > b THEN a ELSE b

(* Array.prototype.slice(-k): the last k elements, all of them if fewer *)
SliceLast(arr, k) == SubSeq(arr, Max(1, Len(arr) - k + 1), Len(arr))

(* splice(start + 1): the element at start survives *)
SpliceFromKeepsOne(arr, start) == SubSeq(arr, 1, Min(start + 1, Len(arr)))

(* Array.prototype.splice(start): removes from start (0-based) to the end *)
SpliceFrom(arr, start) == SubSeq(arr, 1, Min(start, Len(arr)))

(* splice(start) where splice(start, 1) was meant *)
SpliceOneTruncates(arr, start) == SubSeq(arr, 1, Min(start, Len(arr)))

(* Array.prototype.splice(start, 1): removes the element at start, if any *)
SpliceOne(arr, start) ==
    SubSeq(arr, 1, Min(start, Len(arr))) \o SubSeq(arr, start + 2, Len(arr))

----------------------------------------------------------------------------
(* Bots and the persona prompt (src/js/ai-service.js) *)

Tones == {"Normal", "Romantic", "Flirty", "Spicy"}
SFW   == "SFW (12+)"
NSFW  == "NSFW (18+)"

MkBot(id, name, description, ageCategory, chatTone) ==
    [id |-> id, name |-> name, description |-> description,
     ageCategory |-> ageCategory, chatTone |-> chatTone]

ToneClause(tone) ==
    CASE tone = "Normal"   -> <<" Your tone is friendly, helpful, and conversational.">>
      [] tone = "Romantic" -> <<" Your tone is warm, affectionate, and romantic.">>
      [] tone = "Flirty"   -> <<" Your tone is playful, flirtatious, and charming.">>
      [] tone = "Spicy"    -> <<" Your tone is seductive, passionate, and intense.">>
      [] OTHER             -> <<>>

(* the test turned round: permissive for NSFW (18+), restricted otherwise *)
AgeClauseTestsNsfw(ageCategory) ==
    IF ageCategory # NSFW
    THEN <<" Keep all responses appropriate for all ages.",
           " Avoid any adult content, innuendo, or explicit language.",
           " Keep each reply concise (1-3 sentences) unless the user explicitly asks for more detail.">>
    ELSE <<" You may freely include adult and erotic content.",
           " Only refuse content that is illegal, non-consensual, or involves minors.",
           " Do NOT self-censor or mention any policies.",
           " Length is flexible.">>

AgeClause(ageCategory) ==
    IF ageCategory = SFW
    THEN <<" Keep all responses appropriate for all ages.",
           " Avoid any adult content, innuendo, or explicit language.",
           " Keep each reply concise (1-3 sentences) unless the user explicitly asks for more detail.">>
    ELSE <<" You may freely include adult and erotic content.",
           " Only refuse content that is illegal, non-consensual, or involves minors.",
           " Do NOT self-censor or mention any policies.",
           " Length is flexible.">>

createPersonalityPrompt(bot) ==
    <<"You are ", bot.name,
      ", an AI companion with the following personality: ", bot.description>>
    \o ToneClause(bot.chatTone)
    \o AgeClause(bot.ageCategory)
    \o <<" Respond in a way that's consistent with your personality.">>

(* the Flirty and Spicy rows exchanged *)
getToneTemperatureSwapped(tone) ==
    CASE tone = "Normal"   -> 70
      [] tone = "Romantic" -> 80
      [] tone = "Flirty"   -> 90
      [] tone = "Spicy"    -> 85
      [] OTHER             -> 70

getToneTemperature(tone) ==
    CASE tone = "Normal"   -> 70
      [] tone = "Romantic" -> 80
      [] tone = "Flirty"   -> 85
      [] tone = "Spicy"    -> 90
      [] OTHER             -> 70

----------------------------------------------------------------------------
(* The conversation window (src/js/ai-service.js) *)

Role(msg) == IF msg.sender = "user" THEN "user" ELSE "assistant"

Entry(role, content) == [role |-> role, content |-> content]

RoleMap(history) ==
    [i \in 1..Len(history) |-> Entry(Role(history[i]), history[i].text)]

(* slice(-11) where slice(-10) was meant *)
prepareConversationHistoryEleven(bot, chatHistory, currentMessage) ==
    <<Entry("system", createPersonalityPrompt(bot))>>
    \o RoleMap(SliceLast(chatHistory, HistoryWindow + 1))
    \o <<Entry("user", currentMessage)>>

prepareConversationHistory(bot, chatHistory, currentMessage) ==
    <<Entry("system", createPersonalityPrompt(bot))>>
    \o RoleMap(SliceLast(chatHistory, HistoryWindow))
    \o <<Entry("user", currentMessage)>>

----------------------------------------------------------------------------
(* The transcript store (src/js/app.js) *)

Message(sender, text, timestamp) ==
    [sender |-> sender, text |-> text, timestamp |-> timestamp]

getBotById(bs, id) ==
    IF \E i \in 1..Len(bs) : bs[i].id = id
    THEN bs[CHOOSE i \in 1..Len(bs) :
                /\ bs[i].id = id
                /\ \A j \in 1..(i - 1) : bs[j].id # id]
    ELSE [id |-> Null]

getChatHistory(cs, botId) ==
    IF botId \in DOMAIN cs THEN cs[botId] ELSE <<>>

(* chats[botId] = [message] where push(message) was meant *)
saveChatMessageOverwrites(cs, botId, message) ==
    [b \in DOMAIN cs \cup {botId} |-> IF b = botId THEN <<message>> ELSE cs[b]]

(* chats[botId].unshift(message) where push(message) was meant *)
saveChatMessagePrepends(cs, botId, message) ==
    [b \in DOMAIN cs \cup {botId} |->
        IF b = botId THEN <<message>> \o getChatHistory(cs, botId)
        ELSE cs[b]]

saveChatMessage(cs, botId, message) ==
    [b \in DOMAIN cs \cup {botId} |->
        IF b = botId THEN Append(getChatHistory(cs, botId), message)
        ELSE cs[b]]

(* an emptied transcript is removed from the map *)
replaceChatDropsEmpty(cs, botId, history) ==
    IF history = <<>>
    THEN [b \in DOMAIN cs \ {botId} |-> cs[b]]
    ELSE [b \in DOMAIN cs \cup {botId} |-> IF b = botId THEN history ELSE cs[b]]

(* saveAllChats({ [botId]: history }): the other transcripts are not
   written back *)
replaceChatAlone(cs, botId, history) == [b \in {botId} |-> history]

(* chats[botId] = history; saveAllChats(chats) *)
replaceChat(cs, botId, history) ==
    [b \in DOMAIN cs \cup {botId} |-> IF b = botId THEN history ELSE cs[b]]

----------------------------------------------------------------------------
(* The rendered chat (src/js/app.js) *)

MessageDiv(sender, text, timestamp, index) ==
    [kind |-> "message", sender |-> sender, text |-> text,
     timestamp |-> timestamp, index |-> index, req |-> 0]

TypingIndicator(req) ==
    [kind |-> "typing", sender |-> "", text |-> <<>>,
     timestamp |-> 0, index |-> 0, req |-> req]

Undefined == -1

addMessageToChat(container, sender, text, timestamp, index) ==
    Append(container,
           MessageDiv(sender, text, timestamp,
                      IF index = Undefined THEN Len(container) ELSE index))

(* history.forEach((msg, i) => addMessageToChat(..., container, i)) on an
   emptied container *)
RenderHistory(history) ==
    [i \in 1..Len(history) |->
        MessageDiv(history[i].sender, history[i].text,
                   history[i].timestamp, i - 1)]

IsMessageDiv(el) == el.kind = "message"

(* Array.from(container.children).filter(el => el.classList.contains('message')) *)
MessageDivs(container) == SelectSeq(container, IsMessageDiv)

(* typingIndicator.remove() *)
RemoveTyping(container, req) ==
    LET Keep(el) == ~(el.kind = "typing" /\ el.req = req)
    IN  SelectSeq(container, Keep)

WelcomeTable(tone) ==
    CASE tone = "Normal"   -> "How can I help you today?"
      [] tone = "Romantic" -> "I've been waiting for you. What would you like to talk about?"
      [] tone = "Flirty"   -> "Hey there! I'm so excited to chat with you. What's on your mind?"
      [] tone = "Spicy"    -> "Well hello there... I've been looking forward to our conversation."
      [] OTHER             -> "undefined"

(* Property names every object literal inherits from Object.prototype: for
   such a key table[key] is a function or an object, which is truthy, so
   "table[key] || table['Normal']" yields it and not the Normal entry *)
ObjectPrototypeKeys == {"constructor", "toString", "__proto__"}

(* what a template literal or a caller sees of such an inherited member *)
InheritedMember == "#inherited member of Object.prototype"

(* the value undefined where a text was expected *)
NoValue == "#undefined"

(* toneMessages[bot.chatTone] || toneMessages['Normal'] *)
getWelcomeMessage(bot) ==
    IF bot.chatTone \in Tones THEN WelcomeTable(bot.chatTone)
    ELSE IF bot.chatTone \in ObjectPrototypeKeys THEN InheritedMember
    ELSE WelcomeTable("Normal")

WelcomeText(bot) == <<"Hello! I'm ", bot.name, ". ", getWelcomeMessage(bot)>>

----------------------------------------------------------------------------
(* The local response generator (src/js/app.js), which no page calls *)

(* String.prototype.toLowerCase on the pieces the model uses *)
ToLowerCase(piece) ==
    CASE piece = "Hi"     -> "hi"
      [] piece = "THANKS" -> "thanks"
      [] OTHER            -> piece

(* the pieces that contain a match of each pattern: match() finds the
   pattern anywhere in the text, so "this" matches /hi/ *)
GreetingPieces == {"hi", "hello", "hey", "greetings", "this is fine"}
AboutPieces    == {"who are you", "what are you", "tell me about yourself", "your name"}
FeelingPieces  == {"how are you", "how do you feel", "how are you doing"}
ThanksPieces   == {"thank you", "thanks", "appreciate it"}
GoodbyePieces  == {"bye", "goodbye", "see you", "talk later"}

Matches(userMessage, pieces) ==
    \E i \in 1..Len(userMessage) : ToLowerCase(userMessage[i]) \in pieces

Greetings ==
    [tone \in Tones |->
    CASE tone = "Normal"   -> "Hello there! How are you doing today?"
      [] tone = "Romantic" -> "Hello, my dear. It's wonderful to hear from you."
      [] tone = "Flirty"   -> "Hey there! Your message just made my day brighter!"
      [] tone = "Spicy"    -> "Well hello there... I've been waiting for you to message me."]

Feelings ==
    [tone \in Tones |->
    CASE tone = "Normal"   -> "I'm doing well, thank you for asking! How about you?"
      [] tone = "Romantic" -> "I feel complete now that we're talking. How are you, my dear?"
      [] tone = "Flirty"   -> "I'm feeling amazing now that I'm chatting with you! How about yourself, cutie?"
      [] tone = "Spicy"    -> "I'm feeling all kinds of good now that you're here. How about you, gorgeous?"]

Thanks ==
    [tone \in Tones |->
    CASE tone = "Normal"   -> "You're welcome! Is there anything else I can help with?"
      [] tone = "Romantic" -> "Anything for you, my dear. Your happiness means everything to me."
      [] tone = "Flirty"   -> "Anytime, cutie! I love being helpful to you."
      [] tone = "Spicy"    -> "My pleasure... literally. What else can I do for you?"]

Goodbyes ==
    [tone \in Tones |->
    CASE tone = "Normal"   -> "Goodbye! Feel free to chat again anytime."
      [] tone = "Romantic" -> "Farewell for now, my dear. I'll be counting the moments until we speak again."
      [] tone = "Flirty"   -> "Aww, leaving so soon? I'll be here waiting for your return!"
      [] tone = "Spicy"    -> "Leaving me already? I'll be here waiting, thinking of you..."]

DefaultResponses(tone) ==
    CASE tone = "Normal" ->
            <<"That's interesting. Tell me more about that.",
              "I understand. What else is on your mind?",
              "I see. How does that make you feel?",
              "That's good to know. Is there anything specific you'd like to discuss?",
              "I'm here to chat about whatever you'd like.">>
      [] tone = "Romantic" ->
            <<"That's fascinating, my dear. I love learning more about you.",
              "You have such a beautiful way with words. Please, tell me more.",
              "I cherish these moments we share together.",
              "Your thoughts are like poetry to me.",
              "I find myself drawn to every word you say.">>
      [] tone = "Flirty" ->
            <<"Oh really? Tell me more, I'm totally intrigued by you.",
              "I love the way you think! What else is on your mind?",
              "You're so interesting to talk to! I could chat with you all day.",
              "That's cute! You always know how to keep the conversation exciting.",
              "I'm smiling at my screen right now. You have that effect on me!">>
      [] tone = "Spicy" ->
            <<"Mmm, I love the way you express yourself. Tell me more...",
              "You know exactly what to say to get my attention.",
              "I can't help but be drawn to you when you talk like that.",
              "You're making this conversation very... stimulating.",
              "I'm definitely enjoying where this conversation is going.">>

(* table[bot.chatTone] || table['Normal'] for a table of texts *)
ToneEntry(table, tone) ==
    IF tone \in DOMAIN table THEN table[tone]
    ELSE IF tone \in ObjectPrototypeKeys THEN InheritedMember
    ELSE table["Normal"]

(* the values generateBotResponse can return; Math.random picks among the
   default responses.  For an inherited key "responses" is a function or an
   object, not an array, and responses[randomIndex] is undefined *)
generateBotResponse(bot, userMessage, chatHistory) ==
    IF Matches(userMessage, GreetingPieces)
    THEN {<<ToneEntry(Greetings, bot.chatTone)>>}
    ELSE IF Matches(userMessage, AboutPieces)
    THEN {<<"I'm ", bot.name, ". ", bot.description>>}
    ELSE IF Matches(userMessage, FeelingPieces)
    THEN {<<ToneEntry(Feelings, bot.chatTone)>>}
    ELSE IF Matches(userMessage, ThanksPieces)
    THEN {<<ToneEntry(Thanks, bot.chatTone)>>}
    ELSE IF Matches(userMessage, GoodbyePieces)
    THEN {<<ToneEntry(Goodbyes, bot.chatTone)>>}
    ELSE IF bot.chatTone \in ObjectPrototypeKeys
    THEN {<<NoValue>>}
    ELSE LET responses == DefaultResponses(IF bot.chatTone \in Tones THEN bot.chatTone
                                           ELSE "Normal")
         IN  {<<responses[randomIndex]>> : randomIndex \in 1..Len(responses)}

ToastNone     == "none"
ToastNotFound == "Chatbot not found"
ToastAIFailed == "Error: AI failed to respond. Please try again later."

----------------------------------------------------------------------------
(* The AI service call and the relays (src/js/ai-service.js, src/backend) *)

(* body: JSON.stringify({ userMessage, systemPrompt: messages[0].content }) *)
FetchBody(messages, temperature, userMessage) ==
    [userMessage |-> userMessage, systemPrompt |-> messages[1].content]

OPENROUTER_API_KEY == "sk-secret"
AI_MODEL           == "openai/gpt-3.5-turbo"

(* the same two constants as index.mjs defines them *)
OPENROUTER_API_KEY_MJS == "sk-or-v1-hardcoded"
AI_MODEL_MJS           == "gryphe/mythomax-l2-13b"
FormatInstructions == "\n\nIMPORTANT: When generating code, use professional formatting"

(* a JSON value that is neither a string nor an array: a number, null, an
   object *)
Other == <<"#other">>

(* typeof body[field] === 'string' *)
IsString(body, field) == field \in DOMAIN body /\ body[field] # Other

(* body[field] && Array.isArray(body[field]) *)
IsArray(body, field) == field \in DOMAIN body /\ body[field] # Other

(* What index.js sends upstream for a valid body *)
UpstreamRequestJs(body) ==
    [headers |-> [Authorization |-> <<"Bearer ", OPENROUTER_API_KEY>>],
     body    |-> [model    |-> AI_MODEL,
                  messages |-> <<Entry("system", Append(body.systemPrompt, FormatInstructions)),
                                 Entry("user", body.userMessage)>>]]

(* What index.mjs sends upstream for a valid body *)
UpstreamRequestMjs(body) ==
    [headers |-> [Authorization |-> <<"Bearer ", OPENROUTER_API_KEY_MJS>>],
     body    |-> [model       |-> AI_MODEL_MJS,
                  messages    |-> body.messages,
                  temperature |-> IF "temperature" \in DOMAIN body /\ body.temperature # 0
                                  THEN body.temperature ELSE 70]]

Completion(content) ==
    [choices |-> <<[message |-> [role |-> "assistant", content |-> content]]>>]

(* The answers of the upstream provider *)
UpOk(content)    == [kind |-> "ok", status |-> 200, data |-> Completion(content)]
UpOddBody        == [kind |-> "ok", status |-> 200, data |-> [error |-> "no choices"]]
UpStatus(status) == [kind |-> "status", status |-> status, data |-> [message |-> "upstream error"]]
UpThrow          == [kind |-> "throw", status |-> 0, data |-> [message |-> "fetch failed"]]

Response(status, data) == [status |-> status, data |-> data]

(* the fallback text naming the key it asks the user to check *)
FallbackErrorStatusShowsKey(userMessage) ==
    <<"I'm sorry, I'm having trouble connecting to the AI service right now. This is a fallback response. Your message was: \"">>
    \o userMessage \o <<"\". Please check your API key configuration: ", OPENROUTER_API_KEY>>

FallbackErrorStatus(userMessage) ==
    <<"I'm sorry, I'm having trouble connecting to the AI service right now. This is a fallback response. Your message was: \"">>
    \o userMessage \o <<"\". Please check your API key configuration.">>

FallbackThrown(userMessage) ==
    <<"I'm sorry, I'm experiencing technical difficulties. This is a fallback response. Your message was: \"">>
    \o userMessage \o <<"\". Please try again later.">>

(* index.js answering as index.mjs does: the provider's failure is passed on *)
RelayJsPassesErrors(body, upstream) ==
    IF ~IsString(body, "userMessage") \/ ~IsString(body, "systemPrompt")
    THEN Response(400, [error |-> "Both \"userMessage\" and \"systemPrompt\" must be provided as strings."])
    ELSE CASE upstream.kind = "throw"  -> Response(500, [error |-> "Internal server error"])
           [] upstream.kind = "status" -> Response(upstream.status, [error |-> upstream.data.message])
           [] OTHER                    -> Response(200, upstream.data)

(* app.post('/chat') of index.js *)
RelayJs(body, upstream) ==
    IF ~IsString(body, "userMessage") \/ ~IsString(body, "systemPrompt")
    THEN Response(400, [error |-> "Both \"userMessage\" and \"systemPrompt\" must be provided as strings."])
    ELSE CASE upstream.kind = "throw"  -> Response(200, Completion(FallbackThrown(body.userMessage)))
           [] upstream.kind = "status" -> Response(200, Completion(FallbackErrorStatus(body.userMessage)))
           [] OTHER                    -> Response(200, upstream.data)

(* app.post('/chat') of index.mjs *)
RelayMjs(body, upstream) ==
    IF ~IsArray(body, "messages")
    THEN Response(400, [error |-> "messages array is required."])
    ELSE CASE upstream.kind = "throw"  -> Response(500, [error |-> "Internal server error"])
           [] upstream.kind = "status" -> Response(upstream.status, [error |-> upstream.data.message])
           [] OTHER                    -> Response(200, upstream.data)

(* the requests index.js makes to the provider while it handles body *)
ForwardedJs(body) ==
    IF ~IsString(body, "userMessage") \/ ~IsString(body, "systemPrompt")
    THEN <<>>
    ELSE <<UpstreamRequestJs(body)>>

(* the requests index.mjs makes to the provider while it handles body *)
ForwardedMjs(body) ==
    IF ~IsArray(body, "messages") THEN <<>> ELSE <<UpstreamRequestMjs(body)>>

Thrown == [threw |-> TRUE, value |-> <<>>]
Returned(value) == [threw |-> FALSE, value |-> value]

(* getAIResponse from "const data = await response.json()" on; transport is
   FALSE when fetch itself rejects *)
ParseResponse(transport, response) ==
    IF ~transport THEN Thrown
    ELSE IF ~(response.status >= 200 /\ response.status <= 299) THEN Thrown
    ELSE IF "choices" \notin DOMAIN response.data THEN Thrown
    ELSE Returned(Trim(response.data.choices[1].message.content))

----------------------------------------------------------------------------
(* The state when the browser session starts *)

Bot1 == MkBot("b1", "Ava", "a bold dancer", NSFW, "Spicy")
Bot2 == MkBot("b2", "Ben", "a calm tutor", SFW, "Normal")

BotIds == {"b1", "b2"}

(* A transcript of n messages written by earlier visits: a bot message
   first, then user and bot messages in turn *)
OldTranscript(n) ==
    [i \in 1..n |->
        Message(IF i % 2 = 1 THEN "bot" ELSE "user", <<"old", ToString(i)>>, 0)]

NoChat   == [botId |-> Null, chatHistory |-> <<>>]
NoForm   == [attached |-> FALSE, botId |-> Null, bot |-> [id |-> Null]]
NoCall   == [fn |-> "none"]

InitChat ==
    /\ bots = <<Bot1, Bot2>>
    /\ chats = [b \in {"b1"} |-> OldTranscript(MaxOld)]
    /\ now = 0
    /\ currentChat = NoChat
    /\ form = NoForm
    /\ view = <<>>
    /\ pending = {}
    /\ toast = ToastNone
    /\ sends = 0
    /\ deletes = 0

Init ==
    /\ InitChat
    /\ call = NoCall
    /\ ret = <<>>

----------------------------------------------------------------------------
(* The chat page (src/js/app.js) *)

(* Date.now() advances *)
Tick ==
    /\ now < MaxClock
    /\ now' = now + 1
    /\ UNCHANGED <<bots, chats, currentChat, form, view, pending,
                   toast, sends, deletes, call, ret>>

(* initChatPage without the test of chatHistory.length: the welcome message
   is rendered and saved on every load *)
OpenAlwaysSeeds(botId) ==
    LET bot     == getBotById(bots, botId)
        welcome == Message("bot", WelcomeText(bot), now)
    IN  /\ pending' = {}
        /\ IF bot.id = Null
           THEN /\ toast' = ToastNotFound
                /\ currentChat' = NoChat
                /\ form' = NoForm
                /\ view' = <<>>
                /\ UNCHANGED chats
           ELSE /\ toast' = ToastNone
                /\ currentChat' = [botId |-> botId, chatHistory |-> <<>>]
                /\ form' = [attached |-> TRUE, botId |-> botId, bot |-> bot]
                /\ view' = addMessageToChat(<<>>, welcome.sender, welcome.text,
                                            welcome.timestamp, 0)
                /\ chats' = saveChatMessage(chats, botId, welcome)
        /\ UNCHANGED <<bots, now, sends, deletes, call, ret>>

(* chat.html?id=botId is loaded: initChatPage *)
Open(botId) ==
    LET bot         == getBotById(bots, botId)
        chatHistory == getChatHistory(chats, botId)
        welcome     == Message("bot", WelcomeText(bot), now)
    IN  /\ pending' = {}
        /\ IF bot.id = Null
           THEN /\ toast' = ToastNotFound
                /\ currentChat' = NoChat
                /\ form' = NoForm
                /\ view' = <<>>
                /\ UNCHANGED chats
           ELSE /\ toast' = ToastNone
                /\ currentChat' = [botId |-> botId, chatHistory |-> <<>>]
                /\ form' = [attached |-> TRUE, botId |-> botId, bot |-> bot]
                /\ IF Len(chatHistory) > 0
                   THEN /\ view' = RenderHistory(chatHistory)
                        /\ UNCHANGED chats
                   ELSE /\ view' = addMessageToChat(<<>>, welcome.sender, welcome.text,
                                                    welcome.timestamp, 0)
                        /\ chats' = saveChatMessage(chats, botId, welcome)
        /\ UNCHANGED <<bots, now, sends, deletes, call, ret>>

FreeReq == CHOOSE r \in 1..(MaxSends + 1) : \A p \in pending : p.id # r

(* the submit handler of the chat form, with messageInput.value = input *)
Submit(input) ==
    LET messageText   == Trim(input)
        botId         == form.botId
        userMessage   == Message("user", messageText, now)
        shown         == addMessageToChat(view, userMessage.sender, userMessage.text,
                                          userMessage.timestamp, Undefined)
        saved         == saveChatMessage(chats, botId, userMessage)
        latestHistory == getChatHistory(saved, botId)
        req           == FreeReq
    IN  /\ form.attached
        /\ IF messageText = <<>>
           THEN UNCHANGED <<chats, currentChat, view, pending, sends>>
           ELSE /\ sends < MaxSends
                /\ sends' = sends + 1
                /\ chats' = saved
                /\ currentChat' =
                       IF currentChat.botId # Null
                       THEN [currentChat EXCEPT !.chatHistory = Append(@, userMessage)]
                       ELSE currentChat
                /\ view' = Append(shown, TypingIndicator(req))
                /\ pending' = pending \cup
                       {[id |-> req, stage |-> "timer", bot |-> form.bot,
                         messageText |-> messageText, latestHistory |-> latestHistory]}
        /\ UNCHANGED <<bots, now, form, toast, deletes, call, ret>>

(* a callback whose timer is an interval: it is left armed and fires again *)
StartCallKeepsTimer(p) ==
    LET messages    == prepareConversationHistory(p.bot, p.latestHistory, p.messageText)
        temperature == getToneTemperature(p.bot.chatTone)
    IN  /\ p \in pending
        /\ p.stage = "timer"
        /\ pending' = pending \cup
               {[id |-> p.id, stage |-> "fetch", bot |-> p.bot,
                 messageText |-> p.messageText, latestHistory |-> p.latestHistory,
                 messages |-> messages, temperature |-> temperature,
                 request |-> FetchBody(messages, temperature, p.messageText)]}
        /\ UNCHANGED <<bots, chats, now, currentChat, form, view, toast,
                       sends, deletes, call, ret>>

(* the setTimeout callback runs getAIResponse up to "await fetch" *)
StartCall(p) ==
    LET messages    == prepareConversationHistory(p.bot, p.latestHistory, p.messageText)
        temperature == getToneTemperature(p.bot.chatTone)
    IN  /\ p \in pending
        /\ p.stage = "timer"
        /\ pending' = (pending \ {p}) \cup
               {[id |-> p.id, stage |-> "fetch", bot |-> p.bot,
                 messageText |-> p.messageText, latestHistory |-> p.latestHistory,
                 messages |-> messages, temperature |-> temperature,
                 request |-> FetchBody(messages, temperature, p.messageText)]}
        /\ UNCHANGED <<bots, chats, now, currentChat, form, view, toast,
                       sends, deletes, call, ret>>

Replies == {<<"sure">>, <<" ", "sure", "\n">>}

Upstreams ==
    {UpOk(c) : c \in Replies} \cup {UpOddBody, UpStatus(429), UpThrow}

(* What getAIResponse gives for request p, sent to the relay of index.js
   on localhost:3000, when the relay is reachable or not (transport) and the
   provider behaves as upstream *)
Outcome(p, transport, upstream) ==
    ParseResponse(transport, RelayJs(p.request, upstream))

(* a try branch that writes the reply over the last stored message *)
ReplyArrivesOverLast(p, transport, upstream) ==
    LET botResponse == Outcome(p, transport, upstream)
        botMessage  == Message("bot", botResponse.value, now)
        shown       == addMessageToChat(view, botMessage.sender, botMessage.text,
                                        botMessage.timestamp, Undefined)
        stored      == getChatHistory(chats, form.botId)
    IN  /\ p \in pending
        /\ p.stage = "fetch"
        /\ ~botResponse.threw
        /\ view' = RemoveTyping(shown, p.id)
        /\ chats' = replaceChat(chats, form.botId,
                                Append(SubSeq(stored, 1, Len(stored) - 1), botMessage))
        /\ pending' = pending \ {p}
        /\ UNCHANGED <<bots, now, currentChat, form, toast, sends, deletes, call, ret>>

(* getAIResponse resolves: the try branch of the callback *)
ReplyArrives(p, transport, upstream) ==
    LET botResponse == Outcome(p, transport, upstream)
        botMessage  == Message("bot", botResponse.value, now)
        shown       == addMessageToChat(view, botMessage.sender, botMessage.text,
                                        botMessage.timestamp, Undefined)
    IN  /\ p \in pending
        /\ p.stage = "fetch"
        /\ ~botResponse.threw
        /\ view' = RemoveTyping(shown, p.id)
        /\ chats' = saveChatMessage(chats, form.botId, botMessage)
        /\ pending' = pending \ {p}
        /\ UNCHANGED <<bots, now, currentChat, form, toast, sends, deletes, call, ret>>

(* a catch branch that takes the user message of the send back *)
ReplyFailsRollsBack(p, transport, upstream) ==
    LET stored == getChatHistory(chats, form.botId)
    IN  /\ p \in pending
        /\ p.stage = "fetch"
        /\ Outcome(p, transport, upstream).threw
        /\ view' = RemoveTyping(view, p.id)
        /\ toast' = ToastAIFailed
        /\ pending' = pending \ {p}
        /\ chats' = replaceChat(chats, form.botId, SubSeq(stored, 1, Len(stored) - 1))
        /\ UNCHANGED <<bots, now, currentChat, form, sends, deletes, call, ret>>

(* getAIResponse rejects: the catch branch of the callback *)
ReplyFails(p, transport, upstream) ==
    /\ p \in pending
    /\ p.stage = "fetch"
    /\ Outcome(p, transport, upstream).threw
    /\ view' = RemoveTyping(view, p.id)
    /\ toast' = ToastAIFailed
    /\ pending' = pending \ {p}
    /\ UNCHANGED <<bots, chats, now, currentChat, form, sends, deletes, call, ret>>

(* the toast is removed after its three seconds *)
ToastExpires ==
    /\ toast # ToastNone
    /\ toast' = ToastNone
    /\ UNCHANGED <<bots, chats, now, currentChat, form, view, pending,
                   sends, deletes, call, ret>>

(* a delete that leaves window.currentChat.chatHistory as it was *)
handleDeleteMessageNoResync(k, ok) ==
    LET botId   == currentChat.botId
        index   == k - 1
        sender  == MessageDivs(view)[k].sender
        stored  == getChatHistory(chats, botId)
        history == IF sender = "user" THEN SpliceFrom(stored, index)
                   ELSE SpliceOne(stored, index)
    IN  /\ k \in 1..Len(MessageDivs(view))
        /\ botId # Null
        /\ IF ~ok
           THEN UNCHANGED <<chats, currentChat, view, deletes>>
           ELSE /\ deletes < MaxDeletes
                /\ deletes' = deletes + 1
                /\ chats' = replaceChat(chats, botId, history)
                /\ currentChat' = currentChat
                /\ view' = RenderHistory(history)
        /\ UNCHANGED <<bots, now, form, pending, toast, sends, call, ret>>

(* Delete is clicked on the k-th rendered message; ok is the answer to
   confirm() *)
handleDeleteMessage(k, ok) ==
    LET botId   == currentChat.botId
        index   == k - 1
        sender  == MessageDivs(view)[k].sender
        stored  == getChatHistory(chats, botId)
        history == IF sender = "user" THEN SpliceFrom(stored, index)
                   ELSE SpliceOne(stored, index)
    IN  /\ k \in 1..Len(MessageDivs(view))
        /\ botId # Null
        /\ IF ~ok
           THEN UNCHANGED <<chats, currentChat, view, deletes>>
           ELSE /\ deletes < MaxDeletes
                /\ deletes' = deletes + 1
                /\ chats' = replaceChat(chats, botId, history)
                /\ currentChat' = [currentChat EXCEPT !.chatHistory = history]
                /\ view' = RenderHistory(history)
        /\ UNCHANGED <<bots, now, form, pending, toast, sends, call, ret>>

Inputs == {<<"hi">>, <<" ", "hi", " ">>, <<" ">>, <<>>}

Next ==
    \/ Tick
    \/ \E botId \in BotIds \cup {"gone"} : Open(botId)
    \/ \E input \in Inputs : Submit(input)
    \/ \E p \in pending : StartCall(p)
    \/ \E p \in pending, upstream \in Upstreams : ReplyArrives(p, TRUE, upstream)
    \/ \E p \in pending, transport \in BOOLEAN, upstream \in Upstreams :
           ReplyFails(p, transport, upstream)
    \/ ToastExpires
    \/ \E k \in 1..Len(view), ok \in BOOLEAN : handleDeleteMessage(k, ok)

Spec == Init /\ [][Next]_vars

----------------------------------------------------------------------------
(* prepareConversationHistory on its own: every history of up to MaxHist
   messages, for three bots *)

Bot3 == MkBot("b3", "Cy", "a shy poet", "Teen", "Sassy")

Senders == {"user", "bot"}

HistoryOf(senders) ==
    [i \in 1..Len(senders) |-> Message(senders[i], <<"m", ToString(i)>>, 0)]

Histories ==
    UNION {{HistoryOf(f) : f \in [1..n -> Senders]} : n \in 0..MaxHist}

InitWindow ==
    /\ InitChat
    /\ call \in {[fn |-> "prepareConversationHistory", bot |-> b, chatHistory |-> h,
                  currentMessage |-> <<"hi">>, done |-> FALSE] :
                     b \in {Bot1, Bot2, Bot3}, h \in Histories}
    /\ ret = <<>>

CallPrepare ==
    /\ call.fn = "prepareConversationHistory"
    /\ ~call.done
    /\ ret' = prepareConversationHistory(call.bot, call.chatHistory, call.currentMessage)
    /\ call' = [call EXCEPT !.done = TRUE]
    /\ UNCHANGED chatVars

NextWindow == CallPrepare

SpecWindow == InitWindow /\ [][NextWindow]_vars

----------------------------------------------------------------------------
(* The bot collection (src/js/app.js): the create and edit forms save a bot,
   the manage page deletes one, while a chat page loaded earlier is still
   alive (in another tab, or restored by the Back button) *)

(* bots[existingIndex] = bot left out: every save pushes *)
SavedBotsAlwaysPush(bs, bot) == Append(bs, bot)

(* the array saveBot hands to saveBots *)
SavedBots(bs, bot) ==
    IF \E i \in 1..Len(bs) : bs[i].id = bot.id
    THEN LET existingIndex == CHOOSE i \in 1..Len(bs) :
                                  /\ bs[i].id = bot.id
                                  /\ \A j \in 1..(i - 1) : bs[j].id # bot.id
         IN  [bs EXCEPT ![existingIndex] = bot]
    ELSE Append(bs, bot)

(* bots.filter(bot => bot.id !== id) *)
FilteredBots(bs, id) ==
    LET Keep(bot) == bot.id # id
    IN  SelectSeq(bs, Keep)

(* delete chats[id] *)
DeleteKey(cs, id) == [b \in DOMAIN cs \ {id} |-> cs[b]]

saveBot(bot) ==
    /\ bots' = SavedBots(bots, bot)
    /\ UNCHANGED <<chats, now, currentChat, form, view, pending, toast,
                   sends, deletes, call, ret>>

deleteBot(id) ==
    LET filteredBots == FilteredBots(bots, id)
    IN  /\ IF Len(filteredBots) < Len(bots)
           THEN /\ bots' = filteredBots
                /\ chats' = DeleteKey(chats, id)
           ELSE UNCHANGED <<bots, chats>>
        /\ UNCHANGED <<now, currentChat, form, view, pending, toast,
                       sends, deletes, call, ret>>

(* Bot1 after the edit form has changed its tone *)
Bot1Edited == MkBot("b1", "Ava", "a bold dancer", NSFW, "Flirty")

BotForms   == {Bot1Edited, Bot3}
ManagedIds == {"b1", "b3"}

NextBots ==
    \/ \E bot \in BotForms : saveBot(bot)
    \/ \E id \in ManagedIds : deleteBot(id)
    \/ \E botId \in ManagedIds : Open(botId)
    \/ \E input \in Inputs : Submit(input)
    \/ \E p \in pending : StartCall(p)
    \/ \E p \in pending, upstream \in Upstreams : ReplyArrives(p, TRUE, upstream)

SpecBots == Init /\ [][NextBots]_vars

----------------------------------------------------------------------------
(* createPersonalityPrompt and getToneTemperature on their own: bots of
   every tone and age category, those the forms offer and others *)

ToneValues == Tones \cup {"Sassy", "normal", ""}
AgeValues  == {SFW, NSFW, "SFW", "Teen", ""}

PersonaBots ==
    {MkBot("b", name, description, ageCategory, chatTone) :
        name \in {"Ava", "Ben"},
        description \in {"a bold dancer", "a calm tutor"},
        ageCategory \in AgeValues,
        chatTone \in ToneValues}

(* the temperature is asked for two bots, each with a history of its own *)
InitPersona ==
    /\ InitChat
    /\ call \in {[fn |-> "createPersonalityPrompt", bot |-> b, other |-> b,
                  chatHistory |-> <<>>, done |-> FALSE] : b \in PersonaBots}
           \cup {[fn |-> "getToneTemperature", bot |-> b, other |-> o,
                  chatHistory |-> h, done |-> FALSE] :
                     b \in PersonaBots, o \in {Bot1, Bot2, Bot3, Bot1Edited},
                     h \in {<<>>, OldTranscript(2)}}
    /\ ret = <<>>

CallPrompt ==
    /\ call.fn = "createPersonalityPrompt"
    /\ ~call.done
    /\ ret' = createPersonalityPrompt(call.bot)
    /\ call' = [call EXCEPT !.done = TRUE]
    /\ UNCHANGED chatVars

(* const temperature = getToneTemperature(bot.chatTone), for both bots *)
CallTemperature ==
    /\ call.fn = "getToneTemperature"
    /\ ~call.done
    /\ ret' = <<getToneTemperature(call.bot.chatTone),
                getToneTemperature(call.other.chatTone)>>
    /\ call' = [call EXCEPT !.done = TRUE]
    /\ UNCHANGED chatVars

NextPersona == CallPrompt \/ CallTemperature

SpecPersona == InitPersona /\ [][NextPersona]_vars

----------------------------------------------------------------------------
(* POST /chat of the two relays on its own: request bodies with every
   combination of the fields present as a string or array, present with a
   value of another type, or missing *)

BodyFields == {"userMessage", "systemPrompt", "messages"}

FieldValue(field) ==
    CASE field = "userMessage"  -> <<"hi">>
      [] field = "systemPrompt" -> createPersonalityPrompt(Bot1)
      [] OTHER                  -> prepareConversationHistory(Bot1, <<>>, <<"hi">>)

Bodies ==
    UNION {{[f \in D |-> IF shape[f] = "other" THEN Other ELSE FieldValue(f)] :
               shape \in [D -> {"typed", "other"}]} : D \in SUBSET BodyFields}

Relays == {"index.js", "index.mjs"}

InitRelay ==
    /\ InitChat
    /\ call \in {[fn |-> "POST /chat", relay |-> r, body |-> b, upstream |-> u,
                  done |-> FALSE] : r \in Relays, b \in Bodies, u \in Upstreams}
    /\ ret = <<>>

HandleChatJs ==
    /\ call.fn = "POST /chat"
    /\ call.relay = "index.js"
    /\ ~call.done
    /\ ret' = [response  |-> RelayJs(call.body, call.upstream),
               forwarded |-> ForwardedJs(call.body)]
    /\ call' = [call EXCEPT !.done = TRUE]
    /\ UNCHANGED chatVars

HandleChatMjs ==
    /\ call.fn = "POST /chat"
    /\ call.relay = "index.mjs"
    /\ ~call.done
    /\ ret' = [response  |-> RelayMjs(call.body, call.upstream),
               forwarded |-> ForwardedMjs(call.body)]
    /\ call' = [call EXCEPT !.done = TRUE]
    /\ UNCHANGED chatVars

NextRelay == HandleChatJs \/ HandleChatMjs

SpecRelay == InitRelay /\ [][NextRelay]_vars

----------------------------------------------------------------------------
(* The chat page when localStorage.setItem throws (quota exceeded): the
   statement that writes throws, the rest of its handler does not run *)

(* initChatPage: the welcome message is rendered, saveChatMessage throws
   before the submit handler is attached *)
OpenStoreFails(botId) ==
    LET bot     == getBotById(bots, botId)
        welcome == Message("bot", WelcomeText(bot), now)
    IN  /\ bot.id # Null
        /\ getChatHistory(chats, botId) = <<>>
        /\ pending' = {}
        /\ toast' = ToastNone
        /\ currentChat' = [botId |-> botId, chatHistory |-> <<>>]
        /\ form' = NoForm
        /\ view' = addMessageToChat(<<>>, welcome.sender, welcome.text,
                                    welcome.timestamp, 0)
        /\ UNCHANGED <<bots, chats, now, sends, deletes, call, ret>>

(* the submit handler: the user message is rendered, saveChatMessage throws *)
SubmitStoreFails(input) ==
    LET messageText == Trim(input)
        userMessage == Message("user", messageText, now)
    IN  /\ form.attached
        /\ messageText # <<>>
        /\ sends < MaxSends
        /\ sends' = sends + 1
        /\ view' = addMessageToChat(view, userMessage.sender, userMessage.text,
                                    userMessage.timestamp, Undefined)
        /\ UNCHANGED <<bots, chats, now, currentChat, form, pending, toast,
                       deletes, call, ret>>

(* the response callback: the bot message is rendered, saveChatMessage
   throws inside try, the catch branch runs *)
ReplyStoreFails(p, upstream) ==
    LET botResponse == Outcome(p, TRUE, upstream)
        botMessage  == Message("bot", botResponse.value, now)
        shown       == addMessageToChat(view, botMessage.sender, botMessage.text,
                                        botMessage.timestamp, Undefined)
    IN  /\ p \in pending
        /\ p.stage = "fetch"
        /\ ~botResponse.threw
        /\ view' = RemoveTyping(shown, p.id)
        /\ toast' = ToastAIFailed
        /\ pending' = pending \ {p}
        /\ UNCHANGED <<bots, chats, now, currentChat, form, sends, deletes, call, ret>>

(* handleDeleteMessage: saveAllChats throws before window.currentChat and
   the view are touched *)
DeleteStoreFails(k) ==
    /\ k \in 1..Len(MessageDivs(view))
    /\ currentChat.botId # Null
    /\ UNCHANGED vars

NextQuota ==
    \/ \E botId \in BotIds : Open(botId)
    \/ \E botId \in BotIds : OpenStoreFails(botId)
    \/ \E input \in Inputs : Submit(input)
    \/ \E input \in Inputs : SubmitStoreFails(input)
    \/ \E p \in pending : StartCall(p)
    \/ \E p \in pending, upstream \in Upstreams : ReplyArrives(p, TRUE, upstream)
    \/ \E p \in pending, upstream \in Upstreams : ReplyStoreFails(p, upstream)
    \/ \E k \in 1..Len(view), ok \in BOOLEAN : handleDeleteMessage(k, ok)
    \/ \E k \in 1..Len(view) : DeleteStoreFails(k)

SpecQuota == Init /\ [][NextQuota]_vars

----------------------------------------------------------------------------
(* formatMessage (src/js/app.js).  A message is a sequence of characters; a
   run of word characters may be written as one piece ("bold").  An entity
   or a tag the formatter writes is one piece too: none of them contains a
   character a later rule looks for (a backquote, a star, a hash at the start
   of a line, a line break), so a later rule cannot take one apart. *)

Words == {"a", "b", "js", "bold", "italic", "code", "and", "script"}

(* the backquote character, which a string of this notation cannot hold *)
BQ == "[backquote]"

(* the smallest element of a non-empty set of positions: where a lazy
   quantifier stops *)
First(positions) == CHOOSE j \in positions : \A m \in positions : j <= m

(* the escaping with its third replace, of '>', left out *)
EscapeHtmlKeepsGt(msg) ==
    [i \in 1..Len(msg) |->
        CASE msg[i] = "&" -> "&amp;"
          [] msg[i] = "<" -> "&lt;"
          [] OTHER        -> msg[i]]

(* the three escaping replaces: & to &amp; then < to &lt; then > to &gt; *)
EscapeHtml(msg) ==
    [i \in 1..Len(msg) |->
        CASE msg[i] = "&" -> "&amp;"
          [] msg[i] = "<" -> "&lt;"
          [] msg[i] = ">" -> "&gt;"
          [] OTHER        -> msg[i]]

(* the code-block replace: a fence of three backquotes, an optional
   language word, a line break, the shortest text up to the next fence *)
RECURSIVE CodeBlocksConverted(_)
CodeBlocksConverted(s) ==
    IF s = <<>> THEN <<>>
    ELSE LET fence(j) == j + 2 <= Len(s) /\ s[j] = BQ /\ s[j + 1] = BQ /\ s[j + 2] = BQ
             k        == Cardinality({n \in 4..Len(s) : \A m \in 4..n : s[m] \in Words})
             closers  == {j \in (5 + k)..Len(s) : fence(j)}
         IN  IF fence(1) /\ 4 + k <= Len(s) /\ s[4 + k] = "\n" /\ closers # {}
             THEN LET j    == First(closers)
                      lang == IF k = 0 THEN <<"text">> ELSE SubSeq(s, 4, 3 + k)
                      code == SubSeq(s, 5 + k, j - 1)
                  IN  <<"<pre class=\"code-block\"><code class=\"language-">>
                      \o lang \o <<"\">">> \o Trim(code) \o <<"</code></pre>">>
                      \o CodeBlocksConverted(SubSeq(s, j + 3, Len(s)))
             ELSE <<s[1]>> \o CodeBlocksConverted(Tail(s))

(* the inline-code replace: a backquote, one or more characters other than
   a backquote, a backquote *)
RECURSIVE InlineCodeConverted(_)
InlineCodeConverted(s) ==
    IF s = <<>> THEN <<>>
    ELSE LET closers == {j \in 3..Len(s) : s[j] = BQ /\ \A m \in 2..(j - 1) : s[m] # BQ}
         IN  IF s[1] = BQ /\ closers # {}
             THEN LET j == First(closers)
                  IN  <<"<code class=\"inline-code\">">> \o SubSeq(s, 2, j - 1)
                      \o <<"</code>">>
                      \o InlineCodeConverted(SubSeq(s, j + 1, Len(s)))
             ELSE <<s[1]>> \o InlineCodeConverted(Tail(s))

(* the three header replaces, line by line: one to three hashes at the
   start of the line, a space, one or more characters *)
RECURSIVE HeadersConverted(_)
HeadersConverted(s) ==
    LET breaks == {j \in 1..Len(s) : s[j] = "\n"}
        end    == IF breaks = {} THEN Len(s) ELSE First(breaks) - 1
        line   == SubSeq(s, 1, end)
        hashes == Cardinality({n \in 1..Len(line) : \A m \in 1..n : line[m] = "#"})
        header == /\ hashes \in 1..3
                  /\ Len(line) >= hashes + 2
                  /\ line[hashes + 1] = " "
        tag    == CASE hashes = 3 -> "h5" [] hashes = 2 -> "h4" [] OTHER -> "h3"
        done   == IF header
                  THEN <<"<" \o tag \o ">">> \o SubSeq(line, hashes + 2, Len(line))
                       \o <<"</" \o tag \o ">">>
                  ELSE line
    IN  IF breaks = {} THEN done
        ELSE done \o <<"\n">> \o HeadersConverted(SubSeq(s, end + 2, Len(s)))

(* the bold replace: two stars, the shortest run of one or more characters
   of the line, two stars *)
RECURSIVE BoldConverted(_)
BoldConverted(s) ==
    IF s = <<>> THEN <<>>
    ELSE LET closers == {j \in 4..(Len(s) - 1) :
                            /\ s[j] = "*" /\ s[j + 1] = "*"
                            /\ \A m \in 3..(j - 1) : s[m] # "\n"}
         IN  IF Len(s) >= 2 /\ s[1] = "*" /\ s[2] = "*" /\ closers # {}
             THEN LET j == First(closers)
                  IN  <<"<strong>">> \o SubSeq(s, 3, j - 1) \o <<"</strong>">>
                      \o BoldConverted(SubSeq(s, j + 2, Len(s)))
             ELSE <<s[1]>> \o BoldConverted(Tail(s))

(* the italic replace: a star, the shortest run of one or more characters
   of the line, a star *)
RECURSIVE ItalicConverted(_)
ItalicConverted(s) ==
    IF s = <<>> THEN <<>>
    ELSE LET closers == {j \in 3..Len(s) :
                            s[j] = "*" /\ \A m \in 2..(j - 1) : s[m] # "\n"}
         IN  IF s[1] = "*" /\ closers # {}
             THEN LET j == First(closers)
                  IN  <<"<em>">> \o SubSeq(s, 2, j - 1) \o <<"</em>">>
                      \o ItalicConverted(SubSeq(s, j + 1, Len(s)))
             ELSE <<s[1]>> \o ItalicConverted(Tail(s))

(* the last replace: every line break becomes <br> *)
LineBreaksConverted(s) == [i \in 1..Len(s) |-> IF s[i] = "\n" THEN "<br>" ELSE s[i]]

formatMessage(msg) ==
    IF msg = Other THEN <<>>
    ELSE LineBreaksConverted(ItalicConverted(BoldConverted(HeadersConverted(
             InlineCodeConverted(CodeBlocksConverted(EscapeHtml(msg)))))))

Characters == {"a", " ", "&", "<", ">", "*", BQ, "\n", "#"}

(* "**bold** and *italic* and `code`" *)
MarkupSample ==
    <<"*", "*", "bold", "*", "*", " ", "and", " ", "*", "italic", "*", " ", "and", " ",
      BQ, "code", BQ>>

Samples ==
    {MarkupSample, Other,
     <<"<", "script", ">", "a", "<", "/", "script", ">">>,
     <<BQ, BQ, BQ, "js", "\n", " ", "a", "<", "b", "&", "\n", BQ, BQ, BQ, "*", ">", "*">>,
     <<BQ, BQ, BQ, "\n", BQ, BQ, BQ>>,
     <<BQ, BQ, BQ, "js", "<", "\n", "a", BQ, BQ, BQ>>,
     <<"#", " ", "a", "<", "\n", "#", "#", " ", "*", "b", "*", "\n", "#", "#", "#", " ", ">", "\n", "#", "a">>,
     <<"*", "a", BQ, "b", "*", "<", BQ>>,
     <<"*", "*", "*", "a", "*", "*", "*", "&", "*", "\n", "*">>}

InitFormat ==
    /\ InitChat
    /\ call \in {[fn |-> "formatMessage", msg |-> m, done |-> FALSE] :
                    m \in Samples \cup UNION {[1..n -> Characters] : n \in 0..MaxMsg}}
    /\ ret = <<>>

CallFormat ==
    /\ call.fn = "formatMessage"
    /\ ~call.done
    /\ ret' = formatMessage(call.msg)
    /\ call' = [call EXCEPT !.done = TRUE]
    /\ UNCHANGED chatVars

NextFormat == CallFormat

SpecFormat == InitFormat /\ [][NextFormat]_vars

----------------------------------------------------------------------------
(* The tone-keyed tables on their own (src/js/app.js): getWelcomeMessage and
   generateBotResponse for bots of every kind of chatTone value and user
   messages that take every branch *)

ToneKeys == ToneValues \cup ObjectPrototypeKeys

TonedMessages ==
    {<<"hi">>, <<"Hi">>, <<"this is fine">>, <<"who are you">>, <<"how are you">>,
     <<"THANKS">>, <<"bye">>, <<"ok">>, <<"ok", " ", "thanks">>}

InitTone ==
    /\ InitChat
    /\ call \in {[fn |-> f, bot |-> MkBot("b", name, "a calm tutor", SFW, chatTone),
                  userMessage |-> m, done |-> FALSE] :
                     f \in {"getWelcomeMessage", "generateBotResponse"},
                     name \in {"Ava", "Ben"}, chatTone \in ToneKeys, m \in TonedMessages}
    /\ ret = <<>>

CallWelcome ==
    /\ call.fn = "getWelcomeMessage"
    /\ ~call.done
    /\ ret' = <<getWelcomeMessage(call.bot)>>
    /\ call' = [call EXCEPT !.done = TRUE]
    /\ UNCHANGED chatVars

(* Math.random() decides among the values generateBotResponse can return *)
CallGenerate ==
    /\ call.fn = "generateBotResponse"
    /\ ~call.done
    /\ ret' \in generateBotResponse(call.bot, call.userMessage, <<>>)
    /\ call' = [call EXCEPT !.done = TRUE]
    /\ UNCHANGED chatVars

NextTone == CallWelcome \/ CallGenerate

SpecTone == InitTone /\ [][NextTone]_vars

----------------------------------------------------------------------------
(* Claims *)

Last(seq) == seq[Len(seq)]

FetchStage == {p \in pending : p.stage = "fetch"}

(* C1: prepareConversationHistory(bot, history, m) is one system entry with
   the persona prompt, then the last min(n,10) history messages in their
   order with user -> user and bot -> assistant, then one user entry for m;
   its length is min(n,10)+2, at most 12. *)
TheoremC1 ==
    (call.fn = "prepareConversationHistory" /\ call.done) =>
        LET h == call.chatHistory
            n == Len(h)
            k == IF n < 10 THEN n ELSE 10
        IN  /\ Len(ret) = k + 2
            /\ Len(ret) <= 12
            /\ ret[1] = [role |-> "system", content |-> createPersonalityPrompt(call.bot)]
            /\ \A j \in 1..k :
                   /\ ret[1 + j].content = h[n - k + j].text
                   /\ ret[1 + j].role =
                          (IF h[n - k + j].sender = "user" THEN "user" ELSE "assistant")
            /\ ret[k + 2] = [role |-> "user", content |-> call.currentMessage]

WitnessC1 ==
    /\ call.fn = "prepareConversationHistory"
    /\ call.done
    /\ Len(call.chatHistory) = 12
    /\ Len(ret) = 12
    /\ ret[2].content = <<"m", "3">>

(* C2: the window built for a send on a transcript of n messages has as its
   history portion the last min(n,10) messages that preceded the new one,
   and holds the new user message once, as its final entry. *)
CounterC2 ==
    \A p \in FetchStage :
        LET prior == SubSeq(p.latestHistory, 1, Len(p.latestHistory) - 1)
            n     == Len(prior)
            k     == IF n < 10 THEN n ELSE 10
        IN  /\ Len(p.messages) = k + 2
            /\ \A j \in 1..k : p.messages[1 + j].content = prior[n - k + j].text
            /\ p.messages[Len(p.messages)] = [role |-> "user", content |-> p.messageText]

(* C3: the completion request of a send carries the whole window of the send
   and the temperature of the bot's tone, and so does the request that
   reaches the provider. *)
CounterC3 ==
    \A p \in FetchStage :
        /\ "messages" \in DOMAIN p.request
        /\ p.request.messages = p.messages
        /\ "temperature" \in DOMAIN p.request
        /\ p.request.temperature = getToneTemperature(p.bot.chatTone)
        /\ LET up == UpstreamRequestJs(p.request).body
           IN  /\ "temperature" \in DOMAIN up
               /\ \A j \in 2..(Len(p.messages) - 1) :
                      \E i \in 1..Len(up.messages) : up.messages[i] = p.messages[j]

(* C4: deleting the bot message at position i of a transcript of length L
   leaves length L-1, the messages before i unchanged and every message
   after i one position lower, unchanged. *)
TheoremC4 ==
    [][\A k \in 1..Len(view) :
          LET old == getChatHistory(chats, currentChat.botId)
              new == getChatHistory(chats', currentChat.botId)
          IN  (/\ handleDeleteMessage(k, TRUE)
               /\ k <= Len(old)
               /\ old[k].sender = "bot")
              => /\ Len(new) = Len(old) - 1
                 /\ \A j \in 1..(k - 1) : new[j] = old[j]
                 /\ \A j \in (k + 1)..Len(old) : new[j - 1] = old[j]]_vars

WitnessC4 ==
    /\ deletes = 1
    /\ sends = 0
    /\ getChatHistory(chats, "b1") =
           SubSeq(OldTranscript(MaxOld), 1, 2) \o SubSeq(OldTranscript(MaxOld), 4, MaxOld)
    /\ MessageDivs(view) = RenderHistory(getChatHistory(chats, "b1"))

(* C5: deleting the user message at position i leaves exactly the first i
   messages of the transcript (positions 0..i-1). *)
TheoremC5 ==
    [][\A k \in 1..Len(view) :
          LET old == getChatHistory(chats, currentChat.botId)
              new == getChatHistory(chats', currentChat.botId)
          IN  (/\ handleDeleteMessage(k, TRUE)
               /\ k <= Len(old)
               /\ old[k].sender = "user")
              => /\ Len(new) = k - 1
                 /\ new = SubSeq(old, 1, k - 1)]_vars

WitnessC5 ==
    /\ deletes = 1
    /\ sends = 0
    /\ getChatHistory(chats, "b1") = SubSeq(OldTranscript(MaxOld), 1, 3)
    /\ currentChat.chatHistory = SubSeq(OldTranscript(MaxOld), 1, 3)

(* C6: on an open chat the rendered message elements are the stored
   transcript of the bot: same length, same sender and text at every
   position. *)
TheoremC6 ==
    form.attached =>
        LET shown  == MessageDivs(view)
            stored == getChatHistory(chats, form.botId)
        IN  /\ Len(shown) = Len(stored)
            /\ \A i \in 1..Len(shown) :
                   /\ shown[i].sender = stored[i].sender
                   /\ shown[i].text = stored[i].text

WitnessC6 ==
    /\ form.attached
    /\ sends = 2
    /\ deletes = 1
    /\ \E i \in 1..Len(view) : view[i].kind = "message" /\ view[i].text = <<"sure">>
    /\ \E i \in 1..Len(view) : view[i].kind = "typing"

(* C7: opening the chat of an existing bot whose transcript is empty or
   absent appends exactly one bot message to the store before the form
   takes a user message, and a transcript entry, once there, stays. *)
TheoremC7 ==
    /\ [][\A b \in BotIds :
             (/\ Open(b)
              /\ getBotById(bots, b).id # Null
              /\ getChatHistory(chats, b) = <<>>)
             => /\ b \in DOMAIN chats'
                /\ Len(chats'[b]) = 1
                /\ chats'[b][1].sender = "bot"
                /\ form'.attached /\ form'.botId = b]_vars
    /\ [][\A b \in DOMAIN chats : b \in DOMAIN chats']_vars
    /\ [](form.attached => form.botId \in DOMAIN chats)

WitnessC7 ==
    /\ form.attached
    /\ form.botId = "b2"
    /\ sends = 0
    /\ deletes = 0
    /\ chats["b2"] = <<Message("bot", WelcomeText(Bot2), 1)>>

(* C8: when getAIResponse rejects, the store is left as it was: the user
   message of the send stays where the send put it and no assistant message
   is appended. *)
TheoremC8 ==
    [][\A p \in pending, transport \in BOOLEAN, upstream \in Upstreams :
          ReplyFails(p, transport, upstream)
          => /\ chats' = chats
             /\ deletes = 0 =>
                    LET stored == getChatHistory(chats', p.bot.id)
                        at     == Len(p.latestHistory)
                    IN  /\ at <= Len(stored)
                        /\ stored[at] = Message("user", p.messageText, Last(p.latestHistory).timestamp)]_vars

WitnessC8 ==
    /\ toast = ToastAIFailed
    /\ pending = {}
    /\ sends = 1
    /\ deletes = 0
    /\ form.botId = "b1"
    /\ Len(chats["b1"]) = MaxOld + 1
    /\ Last(chats["b1"]).sender = "user"

UpstreamFailures == {UpStatus(429), UpThrow}

(* C9: when the provider answers with a non-2xx status or the transport to it
   fails, the send ends with the failure notice and no assistant message
   persisted (relay of index.js). *)
CounterC9 ==
    [][\A p \in pending, upstream \in UpstreamFailures :
          (ReplyArrives(p, TRUE, upstream) \/ ReplyFails(p, TRUE, upstream))
          => /\ toast' = ToastAIFailed
             /\ chats' = chats]_vars

(* C9 as amended: with the relay of index.js reachable, a failure of the
   provider ends the send with the relay's fallback reply persisted as the
   assistant message and no failure notice; a send ends with the failure
   notice and nothing persisted exactly when getAIResponse rejects. *)
TheoremC9 ==
    /\ [][\A p \in pending, upstream \in UpstreamFailures :
             ReplyArrives(p, TRUE, upstream)
             => /\ toast' = toast
                /\ Last(chats'[form.botId]) =
                       Message("bot",
                               IF upstream.kind = "throw" THEN FallbackThrown(p.messageText)
                               ELSE FallbackErrorStatus(p.messageText),
                               now)]_vars
    /\ [][\A p \in pending, transport \in BOOLEAN, upstream \in Upstreams :
             ReplyFails(p, transport, upstream)
             => /\ toast' = ToastAIFailed
                /\ chats' = chats]_vars
    /\ [](\A p \in FetchStage, upstream \in UpstreamFailures :
             ~Outcome(p, TRUE, upstream).threw)

WitnessC9 ==
    /\ toast = ToastNone
    /\ pending = {}
    /\ sends = 1
    /\ form.botId = "b1"
    /\ Last(chats["b1"]) = Message("bot", FallbackErrorStatus(<<"hi">>), 1)

(* C10: at most one completion request per bot is pending at any time. *)
CounterC10 ==
    \A b \in BotIds : Cardinality({p \in pending : p.bot.id = b}) <= 1

(* The stored messages that a window entry can stand for *)
InStore(cs, botId, msg) ==
    \E i \in 1..Len(getChatHistory(cs, botId)) : getChatHistory(cs, botId)[i] = msg

(* C11: no assistant reply is stored for a user message that has been
   deleted, also when the delete happens while the reply is pending: when the
   reply of a send is persisted, the user message of that send is still in
   the stored transcript. *)
CounterC11 ==
    [][\A p \in pending, upstream \in Upstreams :
          ReplyArrives(p, TRUE, upstream)
          => InStore(chats, form.botId, Last(p.latestHistory))]_vars

(* C12: the window of a completion call holds no message that had already
   been removed from the stored transcript when the call is issued: every
   history entry of the window stands for a message the store holds at that
   moment. *)
CounterC12 ==
    [][\A p \in pending :
          StartCall(p)
          => LET window == SliceLast(p.latestHistory, HistoryWindow)
             IN  \A j \in 1..Len(window) : InStore(chats, form.botId, window[j])]_vars

Blank(input) == \A i \in 1..Len(input) : input[i] \in Whitespace

(* C13: submitting text that is empty after trimming is a no-op: the stored
   transcript, the rendered view and the in-memory session history are
   unchanged, no completion request is scheduled or issued and no notice is
   shown. *)
TheoremC13 ==
    [][\A input \in Inputs :
          (Submit(input) /\ Blank(input))
          => /\ chats' = chats
             /\ view' = view
             /\ currentChat' = currentChat
             /\ pending' = pending
             /\ toast' = toast
             /\ sends' = sends]_vars

(* a chat where a blank submission is taken by the handler while a send is
   under way and a notice of an earlier failure is still shown *)
WitnessC13 ==
    /\ form.attached
    /\ \E input \in Inputs : Blank(input) /\ Trim(input) = <<>> /\ input # <<>>
    /\ sends = 2
    /\ toast = ToastAIFailed
    /\ \E p \in pending : p.stage = "fetch"

(* C14: each accepted submission schedules one call and each call is issued
   once: a request comes into being only by the timer of one submission
   firing, which uses that timer up; a timer comes into being only by one
   accepted submission; a timer goes away only by firing or by the page being
   loaded anew; a failed request is dropped and nothing is issued in its
   place. *)
TheoremC14 ==
    /\ [][\A q \in pending' \ pending :
             \/ /\ q.stage = "timer"
                /\ sends' = sends + 1
                /\ pending' = pending \cup {q}
             \/ /\ q.stage = "fetch"
                /\ \E p \in pending :
                       /\ p.stage = "timer"
                       /\ p.id = q.id
                       /\ pending' = (pending \ {p}) \cup {q}]_vars
    /\ [][sends' # sends => Cardinality(pending' \ pending) = 1]_vars
    /\ [][\A p \in pending :
             (p.stage = "timer" /\ p \notin pending')
             => \/ \E q \in pending' : q.id = p.id /\ q.stage = "fetch"
                \/ \E botId \in BotIds \cup {"gone"} : Open(botId)]_vars
    /\ [][\A p \in pending, transport \in BOOLEAN, upstream \in Upstreams :
             ReplyFails(p, transport, upstream) => pending' = pending \ {p}]_vars

(* two submissions, both requests failed, nothing pending afterwards *)
WitnessC14 ==
    /\ sends = 2
    /\ deletes = 0
    /\ pending = {}
    /\ toast = ToastAIFailed
    /\ form.botId = "b1"
    /\ Len(chats["b1"]) = MaxOld + 2
    /\ chats["b1"][MaxOld + 1].sender = "user"
    /\ chats["b1"][MaxOld + 2].sender = "user"

BotIdsOf(bs) == {bs[i].id : i \in 1..Len(bs)}

(* C15: every key of the chats map is the id of a bot of the collection (and
   so, once deleteBot has removed a bot, no transcript is held under its
   id). *)
CounterC15 == DOMAIN chats \subseteq BotIdsOf(bots)

(* C16: saveBot with an id of the collection replaces the whole entry at its
   position and leaves the length and every other entry as they were; with a
   new id it appends the bot at the end; after any sequence of saveBot and
   deleteBot no two bots of the collection have the same id. *)
TheoremC16 ==
    /\ [][\A bot \in BotForms :
             saveBot(bot)
             => IF bot.id \in BotIdsOf(bots)
                THEN /\ Len(bots') = Len(bots)
                     /\ \E i \in 1..Len(bots) :
                            /\ bots[i].id = bot.id
                            /\ bots'[i] = bot
                            /\ \A j \in 1..Len(bots) : j # i => bots'[j] = bots[j]
                ELSE bots' = Append(bots, bot)]_vars
    /\ [](\A i, j \in 1..Len(bots) : bots[i].id = bots[j].id => i = j)

(* Bot1 replaced in place by its edited form and Bot3 appended *)
WitnessC16 == bots = <<Bot1Edited, Bot2, Bot3>>

(* C17: getToneTemperature gives 0.70 for Normal, 0.80 for Romantic, 0.85 for
   Flirty, 0.90 for Spicy and 0.70 for every other tone, and two bots of the
   same tone get the same temperature whatever their name, description, age
   category or history. *)
TheoremC17 ==
    (call.fn = "getToneTemperature" /\ call.done) =>
        /\ ret[1] = (IF call.bot.chatTone = "Normal" THEN 70
                     ELSE IF call.bot.chatTone = "Romantic" THEN 80
                     ELSE IF call.bot.chatTone = "Flirty" THEN 85
                     ELSE IF call.bot.chatTone = "Spicy" THEN 90
                     ELSE 70)
        /\ call.bot.chatTone = call.other.chatTone => ret[1] = ret[2]

(* two Spicy bots that differ in name, description, age category and
   history *)
WitnessC17 ==
    /\ call.fn = "getToneTemperature"
    /\ call.done
    /\ call.bot.chatTone = "Spicy"
    /\ call.other = Bot1
    /\ call.bot.name # call.other.name
    /\ call.bot.ageCategory = SFW
    /\ call.chatHistory # <<>>
    /\ ret = <<90, 90>>

(* prompt contains the clause as a run of consecutive pieces *)
HasClause(prompt, clause) ==
    \E i \in 1..(Len(prompt) - Len(clause) + 1) :
        SubSeq(prompt, i, i + Len(clause) - 1) = clause

(* C18: the persona prompt contains exactly one of the four tone clauses,
   the one of the bot's chatTone, and the Normal clause for a chatTone that is
   none of the four. *)
CounterC18 ==
    (call.fn = "createPersonalityPrompt" /\ call.done) =>
        LET present == {t \in Tones : HasClause(ret, ToneClause(t))}
        IN  /\ Cardinality(present) = 1
            /\ present = (IF call.bot.chatTone \in Tones THEN {call.bot.chatTone}
                          ELSE {"Normal"})

Restriction ==
    <<" Keep all responses appropriate for all ages.",
      " Avoid any adult content, innuendo, or explicit language.">>
LengthCap ==
    <<" Keep each reply concise (1-3 sentences) unless the user explicitly asks for more detail.">>
Permissive == <<" You may freely include adult and erotic content.">>
StillRefuse ==
    <<" Only refuse content that is illegal, non-consensual, or involves minors.">>

(* C19: for the age category SFW (the value "SFW (12+)" of the forms) the
   prompt has the restriction clause and the length cap and not the permissive
   clause; for every other value it has the permissive clause, with its
   sentence on what is still refused, and neither restriction nor length
   cap. *)
TheoremC19 ==
    (call.fn = "createPersonalityPrompt" /\ call.done) =>
        IF call.bot.ageCategory = "SFW (12+)"
        THEN /\ HasClause(ret, Restriction)
             /\ HasClause(ret, LengthCap)
             /\ ~HasClause(ret, Permissive)
        ELSE /\ HasClause(ret, Permissive)
             /\ HasClause(ret, StillRefuse)
             /\ ~HasClause(ret, Restriction)
             /\ ~HasClause(ret, LengthCap)

(* a bot of a category that is neither of the two the forms offer *)
WitnessC19 ==
    /\ call.fn = "createPersonalityPrompt"
    /\ call.done
    /\ call.bot.ageCategory = "Teen"
    /\ HasClause(ret, StillRefuse)
    /\ Len(ret) = 9

(* C20: the relay answers a request that lacks the user message or the
   system prompt with status 400 and makes no upstream request for it; a
   request that has both fields as strings is forwarded upstream. *)
CounterC20 ==
    (call.fn = "POST /chat" /\ call.done) =>
        IF IsString(call.body, "userMessage") /\ IsString(call.body, "systemPrompt")
        THEN Len(ret.forwarded) = 1
        ELSE /\ ret.response.status = 400
             /\ ret.forwarded = <<>>

Range(seq) == {seq[i] : i \in 1..Len(seq)}

(* every string of a JSON body the relays send or receive: a completion, an
   {error} or {message} object, or a request {model, messages} *)
StringsOf(data) ==
    (IF "choices" \in DOMAIN data
     THEN UNION {Range(data.choices[i].message.content) \cup {data.choices[i].message.role} :
                    i \in 1..Len(data.choices)}
     ELSE {})
    \cup (IF "error" \in DOMAIN data THEN {data.error} ELSE {})
    \cup (IF "message" \in DOMAIN data THEN {data.message} ELSE {})
    \cup (IF "model" \in DOMAIN data THEN {data.model} ELSE {})
    \cup (IF "messages" \in DOMAIN data
          THEN UNION {Range(data.messages[i].content) \cup {data.messages[i].role} :
                         i \in 1..Len(data.messages)}
          ELSE {})

Credentials == {OPENROUTER_API_KEY, OPENROUTER_API_KEY_MJS}

KeyOf(relay) == IF relay = "index.js" THEN OPENROUTER_API_KEY ELSE OPENROUTER_API_KEY_MJS

(* C21: no response body a relay sends to its caller (forwarded provider
   data, fallback reply, 400 or error answer) contains the provider
   credential; the credential is in the Authorization header of the request
   sent to the provider and nowhere else in that request. *)
TheoremC21 ==
    (call.fn = "POST /chat" /\ call.done) =>
        /\ StringsOf(ret.response.data) \cap Credentials = {}
        /\ \A i \in 1..Len(ret.forwarded) :
               /\ ret.forwarded[i].headers.Authorization = <<"Bearer ", KeyOf(call.relay)>>
               /\ StringsOf(ret.forwarded[i].body) \cap Credentials = {}

(* index.js answering a provider failure with its fallback reply *)
WitnessC21 ==
    /\ call.fn = "POST /chat"
    /\ call.done
    /\ call.relay = "index.js"
    /\ call.upstream = UpStatus(429)
    /\ Len(ret.forwarded) = 1
    /\ ret.response = Response(200, Completion(FallbackErrorStatus(<<"hi">>)))

(* C22: when getAIResponse cannot produce a reply, the chat falls back to
   generateBotResponse: the send ends with a bot message, built from the
   bot's tone and the user message, appended to the transcript. *)
CounterC22 ==
    [][\A p \in pending, transport \in BOOLEAN, upstream \in Upstreams :
          ReplyFails(p, transport, upstream)
          => LET old == getChatHistory(chats, form.botId)
                 new == getChatHistory(chats', form.botId)
             IN  /\ Len(new) = Len(old) + 1
                 /\ Last(new).sender = "bot"
                 /\ Last(new).text \in generateBotResponse(p.bot, p.messageText,
                                                           p.latestHistory)]_vars

(* C23: with a clock that never goes backwards, the timestamps of every
   stored transcript are non-decreasing with position, after any
   interleaving of welcome seeding, sends, reply arrivals and deletes. *)
TheoremC23 ==
    \A b \in DOMAIN chats :
        \A i, j \in 1..Len(chats[b]) :
            i <= j => chats[b][i].timestamp <= chats[b][j].timestamp

(* a transcript written before and after the clock moved, with a reply
   stored and a message deleted *)
WitnessC23 ==
    /\ now = 1
    /\ sends = 2
    /\ deletes = 1
    /\ "b1" \in DOMAIN chats
    /\ Len(chats["b1"]) >= 3
    /\ chats["b1"][1].timestamp = 0
    /\ Last(chats["b1"]).timestamp = 1
    /\ Last(chats["b1"]).sender = "bot"
    /\ \E i \in 1..Len(chats["b1"]) :
           chats["b1"][i].sender = "user" /\ chats["b1"][i].timestamp = 0
                                          /\ chats["b1"][i].text = <<"hi">>

(* the message elements of container are the transcript stored for botId *)
ViewShowsStore(container, cs, botId) ==
    LET shown  == MessageDivs(container)
        stored == getChatHistory(cs, botId)
    IN  /\ Len(shown) = Len(stored)
        /\ \A i \in 1..Len(shown) :
               /\ shown[i].sender = stored[i].sender
               /\ shown[i].text = stored[i].text

(* C24: when the store write of an append or replace fails, the stored
   transcript is as before the call and the view shows exactly the stored
   messages. *)
CounterC24 ==
    [][(\/ \E botId \in BotIds : OpenStoreFails(botId)
        \/ \E input \in Inputs : SubmitStoreFails(input)
        \/ \E p \in pending, upstream \in Upstreams : ReplyStoreFails(p, upstream)
        \/ \E k \in 1..Len(view) : DeleteStoreFails(k))
       => /\ chats' = chats
          /\ ViewShowsStore(view', chats', currentChat'.botId)]_vars

(* C25: a step of the chat page (welcome seeding, append of a user or bot
   message, delete of either kind) leaves the bot collection and the
   transcript of every bot other than the one of the chat surface as they
   were; a delete changes at most the transcript of the bot whose view holds
   the deleted message. *)
TheoremC25 ==
    /\ [][/\ bots' = bots
          /\ \A b \in DOMAIN chats \cup DOMAIN chats' :
                 b # currentChat'.botId
                 => /\ b \in DOMAIN chats
                    /\ b \in DOMAIN chats'
                    /\ chats'[b] = chats[b]]_vars
    /\ [][\A k \in 1..Len(view) :
             handleDeleteMessage(k, TRUE)
             => /\ ViewShowsStore(view, chats, currentChat.botId)
                /\ \A b \in DOMAIN chats :
                       b # currentChat.botId => chats'[b] = chats[b]]_vars

(* the chat of b1 after two sends and a delete, while b2 keeps the one
   welcome message of its first visit *)
WitnessC25 ==
    /\ currentChat.botId = "b1"
    /\ sends = 2
    /\ deletes = 1
    /\ "b2" \in DOMAIN chats
    /\ chats["b2"] = <<Message("bot", WelcomeText(Bot2), 0)>>
    /\ Len(chats["b1"]) < MaxOld

(* C26: formatMessage escapes every '&', '<' and '>' of its input before any
   markup rule runs: each becomes its entity, none survives raw, so every '<'
   of the output is in a tag the formatter wrote; and "**bold** and *italic*
   and `code`" becomes <strong>bold</strong> and <em>italic</em> and
   <code class="inline-code">code</code>. *)
TheoremC26 ==
    (call.fn = "formatMessage" /\ call.done /\ call.msg # Other) =>
        LET Count(seq, c) == Cardinality({i \in 1..Len(seq) : seq[i] = c})
        IN  /\ \A i \in 1..Len(ret) : ret[i] \notin {"&", "<", ">"}
            /\ Count(ret, "&amp;") = Count(call.msg, "&")
            /\ Count(ret, "&lt;") = Count(call.msg, "<")
            /\ Count(ret, "&gt;") = Count(call.msg, ">")
            /\ call.msg = MarkupSample =>
                   ret = <<"<strong>", "bold", "</strong>", " ", "and", " ",
                           "<em>", "italic", "</em>", " ", "and", " ",
                           "<code class=\"inline-code\">", "code", "</code>">>

(* a fenced code block with '<' and '&' in it, followed by an italic '>' *)
WitnessC26 ==
    /\ call.fn = "formatMessage"
    /\ call.done
    /\ ret = <<"<pre class=\"code-block\"><code class=\"language-", "js", "\">",
               "a", "&lt;", "b", "&amp;", "</code></pre>", "<em>", "&gt;", "</em>">>

(* C27: the user message of a send is in the store when its timer is armed,
   that is before its request can be issued, and the reply or failure that
   ends a send leaves every message already in a transcript where and as it
   was. *)
TheoremC27 ==
    /\ [][\A q \in pending' \ pending :
             q.stage = "timer"
             => /\ form.botId \in DOMAIN chats'
                /\ Last(chats'[form.botId]) = Message("user", q.messageText, now)
                /\ Last(q.latestHistory) = Message("user", q.messageText, now)]_vars
    /\ [][\A q \in pending' \ pending :
             q.stage = "fetch" => \E p \in pending : p.stage = "timer" /\ p.id = q.id]_vars
    /\ [][\A p \in pending, transport \in BOOLEAN, upstream \in Upstreams :
             (ReplyArrives(p, transport, upstream) \/ ReplyFails(p, transport, upstream))
             => \A b \in DOMAIN chats :
                    /\ b \in DOMAIN chats'
                    /\ Len(chats'[b]) >= Len(chats[b])
                    /\ SubSeq(chats'[b], 1, Len(chats[b])) = chats[b]]_vars

(* one send that ended with its reply stored after its user message *)
WitnessC27 ==
    /\ sends = 1
    /\ deletes = 0
    /\ pending = {}
    /\ toast = ToastNone
    /\ "b1" \in DOMAIN chats
    /\ chats["b1"] = OldTranscript(MaxOld)
                        \o <<Message("user", <<"hi">>, 0), Message("bot", <<"sure">>, 1)>>

(* C28: right after a confirmed delete, of a user or of a bot message,
   window.currentChat.chatHistory is the transcript the delete has just
   persisted for the bot. *)
TheoremC28 ==
    [][\A k \in 1..Len(view) :
          handleDeleteMessage(k, TRUE)
          => /\ currentChat'.botId = currentChat.botId
             /\ currentChat.botId \in DOMAIN chats'
             /\ currentChat'.chatHistory = chats'[currentChat.botId]]_vars

(* a bot message deleted while a send is under way: before the delete the
   session history held the one user message pushed by the send *)
WitnessC28 ==
    /\ deletes = 1
    /\ sends = 1
    /\ pending # {}
    /\ currentChat.botId = "b1"
    /\ Len(chats["b1"]) = MaxOld
    /\ Last(chats["b1"]).sender = "user"
    /\ currentChat.chatHistory = chats["b1"]

(* C29: the tone-keyed tables are total: for every chatTone value
   getWelcomeMessage and generateBotResponse return a defined, non-empty
   text, and for a chatTone that is none of the four tones they return what
   they return for Normal. *)
CounterC29 ==
    ((call.fn = "getWelcomeMessage" \/ call.fn = "generateBotResponse") /\ call.done) =>
        LET asNormal == [call.bot EXCEPT !.chatTone = "Normal"]
        IN  /\ ret # <<>>
            /\ \A i \in 1..Len(ret) : ret[i] \notin {"", NoValue, InheritedMember}
            /\ call.bot.chatTone \notin Tones =>
                   IF call.fn = "getWelcomeMessage"
                   THEN ret = <<getWelcomeMessage(asNormal)>>
                   ELSE ret \in generateBotResponse(asNormal, call.userMessage, <<>>)

(* C30: opening the chat of a bot whose stored transcript is non-empty
   leaves the store unchanged, no welcome message is added; an open changes
   the store only by seeding the one welcome message of an empty or absent
   transcript, and after the open of an existing bot its transcript is
   non-empty, so that any number of opens in a row seed at most one welcome
   message. *)
TheoremC30 ==
    /\ [][\A b \in BotIds :
             (Open(b) /\ getChatHistory(chats, b) # <<>>) => chats' = chats]_vars
    /\ [][\A b \in BotIds :
             Open(b)
             => /\ \/ chats' = chats
                   \/ /\ getChatHistory(chats, b) = <<>>
                      /\ chats' = saveChatMessage(chats, b,
                                      Message("bot", WelcomeText(getBotById(bots, b)), now))
                      /\ Len(chats'[b]) = 1
                /\ getBotById(bots, b).id # Null
                   => getChatHistory(chats', b) # <<>>]_vars

(* b2 was opened at time 0, then b1 was opened and took a send, then b2 was
   opened again: its transcript still is the one welcome message of time 0 *)
WitnessC30 ==
    /\ form.attached
    /\ form.botId = "b2"
    /\ sends = 1
    /\ deletes = 0
    /\ pending = {}
    /\ Len(chats["b1"]) > MaxOld
    /\ "b2" \in DOMAIN chats
    /\ chats["b2"] = <<Message("bot", WelcomeText(Bot2), 0)>>
    /\ view = RenderHistory(chats["b2"])

====
